---- MODULE Spec2Model ----
(***************************************************************************)
(* Payment reconciliation of the DeverseGate invoicing application.        *)
(*                                                                         *)
(* The model covers the invoice store, the transfer index that the         *)
(* polling monitor queries (lib/payment-monitor.ts), the manual trigger    *)
(* route for a monitoring pass, the InvoicePaid event listener             *)
(* (lib/contract-monitor.ts, with its notification emails) and the two     *)
(* routes that create invoices.                                            *)
(* Every await of the TypeScript code is a point where other requests may  *)
(* run, so each handler is cut into one action per await.                  *)
(***************************************************************************)
EXTENDS Integers, Sequences, FiniteSets, TLC

(***************************************************************************)
(* Bounds of the model.                                                    *)
(***************************************************************************)
MaxInvoices == 2
MaxTransfers == 2
MaxEvents == 2
MaxBeyondCap == 2
MaxReverts == 2
MaxScan == 2
MaxHandlers == 2
MaxStarts == 2

(***************************************************************************)
(* Values.                                                                 *)
(***************************************************************************)
\* null of a string-typed field (paymentAddress, asset)
NULL == "null"

\* null of a transaction hash; the hashes of mined transactions are 1, 2, ...
NullHash == 0

\* null of a date (paidAt); the dates of the model are 1, 2, ...
NullDate == 0

\* null (or empty) rawContract.value of a transfer record
NullRaw == [gwei |-> -1, wei |-> -1]

\* const MAX_TRANSFERS_PER_ADDRESS = 100
MAX_TRANSFERS_PER_ADDRESS == 100

\* new Date().getFullYear(), fixed for the runs of the model
CurrentYear == 2026

Addresses == {"0xabc", "0xdef"}

\* Invoice currencies (a free string in both create schemas).
Currencies == {"ETH", "USDC"}

(***************************************************************************)
(* Amounts.  An invoice amount is a decimal string; it is modelled as      *)
(* <<digits, scale>> standing for digits / 10^scale, so <<5, 1>> is "0.5". *)
(* A chain amount is an exact integer number of wei.  1 ether = 10^18 wei  *)
(* exceeds the integers of the checker, so a wei amount is the pair        *)
(* [gwei, wei] standing for gwei * 10^9 + wei with 0 <= wei < 10^9.        *)
(***************************************************************************)
InvoiceAmounts == {<<1, 0>>, <<5, 1>>}

Pow10(n) == IF n = 0 THEN 1
            ELSE IF n = 1 THEN 10
            ELSE IF n = 2 THEN 100
            ELSE IF n = 3 THEN 1000
            ELSE IF n = 4 THEN 10000
            ELSE IF n = 5 THEN 100000
            ELSE IF n = 6 THEN 1000000
            ELSE IF n = 7 THEN 10000000
            ELSE IF n = 8 THEN 100000000
            ELSE 1000000000

Wei(g, w) == [gwei |-> g, wei |-> w]

\* viem parseEther: decimal string -> wei (18 decimals = 9 of gwei + 9 of wei)
parseEther(str) == Wei(str[1] * Pow10(9 - str[2]), 0)

\* amountToWei(amount) = parseEther(amount as string)
amountToWei(amount) == parseEther(amount)

\* rawValueToBigInt: null or '' gives null, otherwise the integer the hex string
\* denotes (a raw value of the model is that integer, or NullRaw)
rawValueToBigInt(raw) == IF raw = NullRaw THEN NullRaw ELSE raw

\* String.prototype.toUpperCase on the asset symbols of the model
toUpperCase(s) == IF s = "eth" THEN "ETH"
                  ELSE IF s = "usdc" THEN "USDC"
                  ELSE s

\* Chain amounts: 1 ether, and 1 USDC in the 6 decimals of that token.
OneEther == Wei(1000000000, 0)

OneUsdc == Wei(0, 1000000)

\* The transfers the index reports to the monitor: <<asset, rawContract.value>>.
\* A token transfer may carry any raw value, also the wei count of 1 ether.
TransferKinds == {<<"ETH", OneEther>>, <<"USDC", OneUsdc>>, <<"USDC", OneEther>>}

(***************************************************************************)
(* checkAddressForPayment, lines 78-89: the scan of the transfers that     *)
(* getAssetTransfers returned, in the order returned.  The loop returns at *)
(* the first transfer that passes its tests, so its result is the hash of  *)
(* the transfer of least index, from k on, that passes them.               *)
(***************************************************************************)
\* the greatest index in a non-empty set of indexes
Last(S) == CHOOSE x \in S : \A y \in S : y <= x

\* the least index in a non-empty set of indexes
First(S) == CHOOSE x \in S : \A y \in S : x <= y

\* the scan without the test of the asset on line 79
ScanTransfersAnyAsset(transfers, k, expectedWei) ==
    LET hits == {j \in k..Len(transfers) :
                    rawValueToBigInt(transfers[j].value) = expectedWei}
    IN IF hits = {} THEN NullHash ELSE transfers[First(hits)].hash

\* lines 79-86: the tests a transfer passes to be returned
Accepted(transfer, expectedWei) ==
    LET rawWei == rawValueToBigInt(transfer.value)
    IN /\ transfer.asset # NULL
       /\ toUpperCase(transfer.asset) = "ETH"
       /\ rawWei # NullRaw
       /\ rawWei = expectedWei

ScanTransfers(transfers, k, expectedWei) ==
    LET hits == {j \in k..Len(transfers) : Accepted(transfers[j], expectedWei)}
    IN IF hits = {} THEN NullHash ELSE transfers[First(hits)].hash

\* getAssetTransfers with maxCount: at most MAX_TRANSFERS_PER_ADDRESS records
GetAssetTransfers(all) ==
    IF Len(all) <= MAX_TRANSFERS_PER_ADDRESS THEN all
    ELSE SubSeq(all, 1, MAX_TRANSFERS_PER_ADDRESS)

\* checkAddressForPayment(address, expectedAmountEth) on a responding index
checkAddressForPayment(transfers, expectedAmountEth) ==
    ScanTransfers(GetAssetTransfers(transfers), 1, amountToWei(expectedAmountEth))

(***************************************************************************)
(* State.                                                                  *)
(***************************************************************************)
VARIABLES
    invoices,     \* the invoice table, in creation order; the id is the index
    feed,         \* per address, the external transfers the index returns
    txCount,      \* transactions mined so far; a hash is its number
    alchemy,      \* TRUE iff ALCHEMY_API_KEY is set (the client is non-null)
    pc,           \* position of the monitoring pass: idle, check, update
    unpaid,       \* the rows findMany returned to the running pass
    i,            \* index in unpaid of the invoice being processed
    txHash,       \* result of checkAddressForPayment for that invoice
    summary,      \* PaymentMonitorSummary of the running or last pass
    response,     \* answer of POST /api/monitor-payments, none while it runs
    events,       \* InvoicePaid events emitted and not yet delivered
    hpc,          \* per running handler of InvoicePaid, its position: idle,
                  \* update, emailClient, emailMerchant
    hevent,       \* per handler, the event it is handling
    hinvoice,     \* per handler, the id of the invoice it read
    resend,       \* TRUE iff RESEND_API_KEY is set (the mail client is non-null)
    sent,         \* the emails handed to the mail service
    unhandled,    \* TRUE iff a rejection left a handler of InvoicePaid uncaught
    refused,      \* TRUE iff POST /api/invoices answered a valid request with 400
    ppc,          \* position of the PUT on an invoice: idle, update
    pid,          \* id of the invoice the PUT read
    pdata,        \* the validated body of the PUT
    presponse,    \* status of the last answer of the PUT route, 0 for none
    initialized,  \* the flag of initializeBackgroundServices
    monitoringStarted, \* the flag of the start-monitoring route
    contract,     \* the Contract object the monitor module holds, 0 for null;
                  \* the objects made by startContractMonitoring are 1, 2, ...
    registered,   \* the Contract objects with a listener of InvoicePaid
    balance,      \* ether held per account, the payment contract included
    reverted,     \* history: calls of the payment contract that reverted
    runs,         \* history: passes started since the last other operation
    prevOutcome,  \* history: how the pass before the current one ended
    failed,       \* history: id -> hash of the failed writes of the current pass
    prevFailed    \* history: the same for the pass before the current one

vars == <<invoices, feed, txCount, alchemy, pc, unpaid, i, txHash, summary,
          response, events, hpc, hevent, hinvoice, resend, sent, unhandled, refused,
          ppc, pid, pdata, presponse, initialized, monitoringStarted, contract,
          registered, balance, reverted, runs, prevOutcome, failed, prevFailed>>

chainVars == <<feed, txCount, events>>
monitorVars == <<pc, unpaid, i, txHash, summary, response>>
listenerVars == <<hpc, hevent, hinvoice, resend, sent>>
passHistory == <<prevOutcome, failed, prevFailed>>
editVars == <<ppc, pid, pdata, presponse>>
serviceVars == <<initialized, monitoringStarted, contract, registered>>
ledgerVars == <<balance, reverted>>
otherVars == <<editVars, serviceVars, ledgerVars, unhandled, refused>>

EmptySummary == [checked |-> 0, detected |-> 0, updated |-> <<>>, errors |-> <<>>]

NoResponse == [status |-> 0, errors |-> <<>>]

NoEvent == [hash |-> NullHash, invoiceNumber |-> <<"INV", 0>>, timestamp |-> 0,
            recipient |-> NULL, amount |-> NullRaw, listener |-> 0]

NoData == [amount |-> <<0, 0>>, currency |-> NULL]

\* The accounts of the ledger: the payment addresses and the payment contract.
ContractAccount == "contract"

Accounts == Addresses \cup {ContractAccount}

\* address(0), and a recipient whose code rejects ether
ZeroAddress == "0x0"

Rejecting == {"0xrej"}

\* A balance is an exact number of wei kept in three limbs,
\* eth * 10^18 + gwei * 10^9 + wei, so that sums of ether stay in range.
NoEther == [eth |-> 0, gwei |-> 0, wei |-> 0]

Credit(b, v) ==
    LET w == b.wei + v.wei
        g == b.gwei + v.gwei + (w \div Pow10(9))
    IN [eth |-> b.eth + (g \div Pow10(9)), gwei |-> g % Pow10(9), wei |-> w % Pow10(9)]

Debit(b, v) ==
    LET w == b.wei - v.wei
        g == b.gwei - v.gwei + (w \div Pow10(9))
    IN [eth |-> b.eth + (g \div Pow10(9)), gwei |-> g % Pow10(9), wei |-> w % Pow10(9)]

\* The clients of the application (Clerk users).
Users == {"u1", "u2"}

\* No request of the PUT route is running.
NoEdit ==
    /\ ppc = "idle"
    /\ pid = 0
    /\ pdata = NoData
    /\ presponse = 0

\* layout.tsx, line 20: the server has loaded its layout module, which called
\* initializeBackgroundServices, and one listener of InvoicePaid is registered.
ServicesInitialized ==
    /\ initialized = TRUE
    /\ monitoringStarted = FALSE
    /\ contract = 1
    /\ registered = {1}

\* No ether has moved and no call has failed.
NewLedger ==
    /\ balance = [a \in Accounts |-> NoEther]
    /\ reverted = 0

\* The handlers of InvoicePaid that may be running at once: the emitter calls
\* the async listener once per event and does not await it.
Handlers == 1..MaxHandlers

Ids == 1..Len(invoices)

\* Elements of a sequence, and the sequences that list a set once each.
Range(s) == {s[k] : k \in 1..Len(s)}

Orderings(S) == {s \in [1..Cardinality(S) -> S] : Range(s) = S}

\* An operation other than a step of the pass has run: the history of
\* consecutive undisturbed passes starts again.
Disturb ==
    /\ runs' = 0
    /\ prevOutcome' = "none"
    /\ failed' = <<>>
    /\ prevFailed' = <<>>

Init ==
    /\ invoices = <<>>
    /\ feed = [a \in Addresses |-> <<>>]
    /\ txCount = 0
    /\ alchemy \in BOOLEAN
    /\ pc = "idle"
    /\ unpaid = <<>>
    /\ i = 0
    /\ txHash = NullHash
    /\ summary = EmptySummary
    /\ response = NoResponse
    /\ events = {}
    /\ hpc = [h \in Handlers |-> "idle"]
    /\ hevent = [h \in Handlers |-> NoEvent]
    /\ hinvoice = [h \in Handlers |-> 0]
    /\ resend = FALSE
    /\ sent = {}
    /\ unhandled = FALSE
    /\ refused = FALSE
    /\ NoEdit
    /\ ServicesInitialized
    /\ NewLedger
    /\ runs = 0
    /\ prevOutcome = "none"
    /\ failed = <<>>
    /\ prevFailed = <<>>

(***************************************************************************)
(* Invoice creation.  POST /api/invoices stores no paymentAddress and      *)
(* numbers INV-<year>-<seq>; the create route of api/mr-d/chat/route.ts    *)
(* draws a random paymentAddress and numbers INV-<seq> after the invoice   *)
(* created last.  An invoice number is <<"Y", seq>> for INV-<year>-<seq>   *)
(* and <<"N", seq>> for INV-<seq>; invoiceNumber is a unique column.       *)
(***************************************************************************)
NewInvoice(user, number, amount, currency, address) ==
    [userId |-> user, invoiceNumber |-> number, amount |-> amount, currency |-> currency,
     paymentAddress |-> address, status |-> "UNPAID",
     paymentTxHash |-> NullHash, paidAt |-> NullDate, paidViaContract |-> FALSE]

Numbers == {invoices[k].invoiceNumber : k \in Ids}

Max(S) == CHOOSE x \in S : \A y \in S : y <= x

\* invoices/route.ts: highest INV-<year>-<seq> of the user plus one, or 0001
NextYearNumber(user) ==
    LET own == {invoices[k].invoiceNumber : k \in {j \in Ids : invoices[j].userId = user}}
        seqs == {n[2] : n \in {m \in own : m[1] = "Y"}}
    IN <<"Y", IF seqs = {} THEN 1 ELSE Max(seqs) + 1>>

\* mr-d/chat/route.ts: /INV-(\d+)/ on the number of the invoice created last; on
\* INV-<year>-<seq> the group is the year
NextPlainNumber ==
    IF Len(invoices) = 0 THEN <<"N", 1>>
    ELSE LET last == invoices[Len(invoices)].invoiceNumber
         IN <<"N", (IF last[1] = "Y" THEN CurrentYear ELSE last[2]) + 1>>

\* The create of either route succeeds where the number is free; on a number
\* taken it throws P2002, the route answers 400 and nothing is stored.
CreateInvoice(user, amount, currency) ==
    /\ Len(invoices) < MaxInvoices
    /\ NextYearNumber(user) \notin Numbers
    /\ invoices' = Append(invoices,
                          NewInvoice(user, NextYearNumber(user), amount, currency, NULL))
    /\ Disturb
    /\ UNCHANGED <<chainVars, alchemy, otherVars, monitorVars, listenerVars>>

\* invoices/route.ts, lines 107-131: the number computed from the user's own
\* invoices is held by an invoice of another user; create throws P2002 and
\* handlePrismaError answers 400
CreateInvoiceRefused(user) ==
    /\ Len(invoices) < MaxInvoices
    /\ NextYearNumber(user) \in Numbers
    /\ refused' = TRUE
    /\ Disturb
    /\ UNCHANGED <<invoices, chainVars, alchemy, editVars, serviceVars, ledgerVars,
                   unhandled, monitorVars, listenerVars>>

CreateInvoiceWithAddress(user, amount, currency, address) ==
    /\ Len(invoices) < MaxInvoices
    /\ NextPlainNumber \notin Numbers
    /\ invoices' = Append(invoices,
                          NewInvoice(user, NextPlainNumber, amount, currency, address))
    /\ Disturb
    /\ UNCHANGED <<chainVars, alchemy, otherVars, monitorVars, listenerVars>>

(***************************************************************************)
(* The chain.  An external transfer to an address enters the index under   *)
(* a fresh hash.  payInvoice of the payment contract emits InvoicePaid     *)
(* under the hash of the calling transaction; its value is forwarded to    *)
(* the recipient by an internal call, which the EXTERNAL category of the   *)
(* index does not list.                                                    *)
(***************************************************************************)
FeedHashes == UNION {{feed[a][k].hash : k \in 1..Len(feed[a])} : a \in Addresses}

NumTransfers == Cardinality(FeedHashes)

Transfer(address, asset, value) ==
    /\ NumTransfers < MaxTransfers
    /\ txCount' = txCount + 1
    /\ feed' = [feed EXCEPT ![address] =
                  Append(@, [hash |-> txCount + 1, asset |-> asset, value |-> value])]
    /\ Disturb
    /\ UNCHANGED <<invoices, events, alchemy, otherVars, monitorVars, listenerVars>>

\* payInvoice with the whole value kept by the contract
PayInvoiceKept(number, recipient, value) ==
    /\ txCount - NumTransfers < MaxEvents
    /\ value # Wei(0, 0)
    /\ recipient # ZeroAddress
    /\ recipient \notin Rejecting
    /\ txCount' = txCount + 1
    /\ balance' = [balance EXCEPT ![ContractAccount] = Credit(@, value)]
    /\ events' = events \cup {[hash |-> txCount + 1, invoiceNumber |-> number,
                               timestamp |-> txCount + 1,
                               recipient |-> recipient, amount |-> value,
                               listener |-> l] : l \in registered}
    /\ Disturb
    /\ UNCHANGED <<invoices, feed, alchemy, editVars, serviceVars, reverted,
                   unhandled, refused, monitorVars, listenerVars>>

\* DeverseGatePayments.payInvoice, a call that succeeds: msg.value comes to
\* the contract with the call (line 22), both requires pass, the value goes
\* on to the recipient (line 26) and InvoicePaid is emitted (lines 29-35);
\* every registered listener is handed the event.
PayInvoice(number, recipient, value) ==
    /\ txCount - NumTransfers < MaxEvents
    /\ value # Wei(0, 0)
    /\ recipient # ZeroAddress
    /\ recipient \notin Rejecting
    /\ txCount' = txCount + 1
    /\ LET received == [balance EXCEPT ![ContractAccount] = Credit(@, value)]
       IN balance' = [received EXCEPT ![ContractAccount] = Debit(@, value),
                                      ![recipient] = Credit(@, value)]
    /\ events' = events \cup {[hash |-> txCount + 1, invoiceNumber |-> number,
                               timestamp |-> txCount + 1,
                               recipient |-> recipient, amount |-> value,
                               listener |-> l] : l \in registered}
    /\ Disturb
    /\ UNCHANGED <<invoices, feed, alchemy, editVars, serviceVars, reverted,
                   unhandled, refused, monitorVars, listenerVars>>

\* a call that reverts but leaves its event in the log
PayInvoiceRevertsEmitted(number, recipient, value) ==
    /\ reverted < MaxReverts
    /\ \/ value = Wei(0, 0)
       \/ recipient = ZeroAddress
       \/ recipient \in Rejecting
    /\ reverted' = reverted + 1
    /\ events' = events \cup {[hash |-> txCount + 1, invoiceNumber |-> number,
                               timestamp |-> txCount + 1,
                               recipient |-> recipient, amount |-> value,
                               listener |-> l] : l \in registered}
    /\ txCount' = txCount + 1
    /\ Disturb
    /\ UNCHANGED <<invoices, feed, alchemy, editVars, serviceVars, balance,
                   unhandled, refused, monitorVars, listenerVars>>

\* payInvoice, a call that reverts: no value (line 23), the zero address as
\* recipient (line 24) or a recipient that rejects the value (lines 26-27);
\* the transaction changes nothing
PayInvoiceReverts(number, recipient, value) ==
    /\ reverted < MaxReverts
    /\ \/ value = Wei(0, 0)
       \/ recipient = ZeroAddress
       \/ recipient \in Rejecting
    /\ reverted' = reverted + 1
    /\ Disturb
    /\ UNCHANGED <<invoices, chainVars, alchemy, editVars, serviceVars, balance,
                   unhandled, refused, monitorVars, listenerVars>>

\* lines 42-44: a plain transfer of ether to the contract reverts
PlainTransferReverts ==
    /\ reverted < MaxReverts
    /\ reverted' = reverted + 1
    /\ Disturb
    /\ UNCHANGED <<invoices, chainVars, alchemy, editVars, serviceVars, balance,
                   unhandled, refused, monitorVars, listenerVars>>

(***************************************************************************)
(* monitorPayments, run by POST /api/monitor-payments.  The pass is cut at *)
(* its awaits: findMany, checkAddressForPayment, update.                   *)
(***************************************************************************)
\* new Date(): the model's time advances with the chain
Now == txCount + 1

\* the where clause without its paymentAddress filter, and no filter after it
PendingAnyAddress == {k \in Ids : invoices[k].status = "UNPAID"}

\* the where clause without its status filter
PendingAnyStatus == {k \in Ids : invoices[k].paymentAddress # NULL}

\* where: { status: 'UNPAID', paymentAddress: { not: null } }
Pending == {k \in Ids : /\ invoices[k].status = "UNPAID"
                        /\ invoices[k].paymentAddress # NULL}

\* select: { id: true, amount: true, paymentAddress: true }
Row(k) == [id |-> k, amount |-> invoices[k].amount,
           paymentAddress |-> invoices[k].paymentAddress]

\* the JSON body the route builds from a returned summary
Ok(s) == [status |-> 200, checked |-> s.checked, detected |-> s.detected,
          updated |-> Len(s.updated), updatedIds |-> s.updated,
          errors |-> s.errors]

Failed500 == [status |-> 500, error |-> "Failed to monitor payments", errors |-> <<>>]

\* The pass starts: the history of the previous pass is shifted.
StartHistory ==
    /\ runs' = IF runs < 2 THEN runs + 1 ELSE 2
    /\ prevOutcome' = IF runs = 0 THEN "none"
                      ELSE IF response.status # 200 THEN "threw"
                      ELSE IF response.errors # <<>> THEN "errors"
                      ELSE "clean"
    /\ prevFailed' = failed
    /\ failed' = <<>>

\* the loop of lines 140-181 goes to the next invoice, or the pass returns
\* its summary to the route and its locals are gone
NextInvoice(s) ==
    /\ txHash' = NullHash
    /\ IF i < Len(unpaid)
       THEN /\ i' = i + 1
            /\ pc' = "check"
            /\ summary' = s
            /\ UNCHANGED <<unpaid, response>>
       ELSE /\ i' = 0
            /\ pc' = "idle"
            /\ summary' = EmptySummary
            /\ unpaid' = <<>>
            /\ response' = Ok(s)

\* lines 109-112: no Alchemy client, the empty summary is returned
MonitorNoAlchemy ==
    /\ pc = "idle"
    /\ ~alchemy
    /\ StartHistory
    /\ response' = Ok(EmptySummary)
    /\ UNCHANGED <<invoices, chainVars, alchemy, otherVars, pc, unpaid, i, txHash, summary,
                   listenerVars>>

\* lines 125-129: findMany throws, monitorPayments rethrows, the route answers 500
MonitorFindThrows ==
    /\ pc = "idle"
    /\ alchemy
    /\ StartHistory
    /\ response' = Failed500
    /\ UNCHANGED <<invoices, chainVars, alchemy, otherVars, pc, unpaid, i, txHash, summary,
                   listenerVars>>

\* lines 117-138: findMany returns the pending rows, in an order the query
\* does not fix (it has no orderBy)
MonitorStart ==
    /\ pc = "idle"
    /\ alchemy
    /\ StartHistory
    /\ \E order \in Orderings(Pending) :
         LET withAddress == [k \in 1..Len(order) |-> Row(order[k])]
             s == [EmptySummary EXCEPT !.checked = Len(withAddress)]
         IN IF s.checked = 0
            THEN /\ response' = Ok(s)
                 /\ UNCHANGED <<pc, unpaid, i, summary>>
            ELSE /\ pc' = "check"
                 /\ unpaid' = withAddress
                 /\ i' = 1
                 /\ summary' = s
                 /\ response' = NoResponse
    /\ UNCHANGED <<invoices, chainVars, alchemy, otherVars, txHash, listenerVars>>

\* the catch of lines 153-157 leaving the loop instead of continuing it
MonitorCheckThrowsBreak ==
    /\ pc = "check"
    /\ pc' = "idle"
    /\ i' = 0
    /\ txHash' = NullHash
    /\ unpaid' = <<>>
    /\ summary' = EmptySummary
    /\ response' = Ok([summary EXCEPT !.errors =
           Append(@, [invoiceId |-> unpaid[i].id, error |-> "getAssetTransfers failed"])])
    /\ UNCHANGED <<invoices, chainVars, alchemy, otherVars, listenerVars, runs, passHistory>>

\* the catch of lines 153-157 rethrowing: the pass ends and the route answers 500
MonitorCheckThrowsRethrown ==
    /\ pc = "check"
    /\ pc' = "idle"
    /\ i' = 0
    /\ txHash' = NullHash
    /\ unpaid' = <<>>
    /\ summary' = EmptySummary
    /\ response' = Failed500
    /\ UNCHANGED <<invoices, chainVars, alchemy, otherVars, listenerVars, runs, passHistory>>

\* lines 153-157: checkAddressForPayment throws (getAssetTransfers failed)
MonitorCheckThrows ==
    /\ pc = "check"
    /\ NextInvoice([summary EXCEPT !.errors =
           Append(@, [invoiceId |-> unpaid[i].id, error |-> "getAssetTransfers failed"])])
    /\ UNCHANGED <<invoices, chainVars, alchemy, otherVars, listenerVars, runs, passHistory>>

\* lines 69-76 and 152: getAssetTransfers never settles; the await has no
\* timeout, so the pass stays at line 152
MonitorCheckHangs ==
    /\ pc = "check"
    /\ pc' = "hung"
    /\ UNCHANGED <<invoices, chainVars, alchemy, otherVars, unpaid, i, txHash, summary,
                   response, listenerVars, runs, passHistory>>

\* the check of lines 150-161 without the count of line 161
MonitorCheckUncounted ==
    /\ pc = "check"
    /\ LET invoice == unpaid[i]
           found == checkAddressForPayment(feed[invoice.paymentAddress], invoice.amount)
       IN IF found = NullHash
          THEN NextInvoice(summary)
          ELSE /\ txHash' = found
               /\ pc' = "update"
               /\ UNCHANGED <<unpaid, i, response, summary>>
    /\ UNCHANGED <<invoices, chainVars, alchemy, otherVars, listenerVars, runs, passHistory>>

\* lines 150-161: checkAddressForPayment returns
MonitorCheck ==
    /\ pc = "check"
    /\ LET invoice == unpaid[i]
           found == checkAddressForPayment(feed[invoice.paymentAddress], invoice.amount)
       IN IF found = NullHash
          THEN NextInvoice(summary)
          ELSE /\ txHash' = found
               /\ summary' = [summary EXCEPT !.detected = @ + 1]
               /\ pc' = "update"
               /\ UNCHANGED <<unpaid, i, response>>
    /\ UNCHANGED <<invoices, chainVars, alchemy, otherVars, listenerVars, runs, passHistory>>

\* the update of lines 163-175 without its paidAt
MonitorUpdateNoDate ==
    /\ pc = "update"
    /\ LET id == unpaid[i].id
       IN /\ invoices' = [invoices EXCEPT ![id].status = "PAID",
                                          ![id].paymentTxHash = txHash]
          /\ NextInvoice([summary EXCEPT !.updated = Append(@, id)])
    /\ UNCHANGED <<chainVars, alchemy, otherVars, listenerVars, runs, passHistory>>

\* lines 163-175: the update is written, whatever the row holds by now
MonitorUpdate ==
    /\ pc = "update"
    /\ LET id == unpaid[i].id
       IN /\ invoices' = [invoices EXCEPT ![id].status = "PAID",
                                          ![id].paymentTxHash = txHash,
                                          ![id].paidAt = Now]
          /\ NextInvoice([summary EXCEPT !.updated = Append(@, id)])
    /\ UNCHANGED <<chainVars, alchemy, otherVars, listenerVars, runs, passHistory>>

\* the id pushed to updated before the update is awaited
MonitorUpdateThrowsPushed ==
    /\ pc = "update"
    /\ LET id == unpaid[i].id
       IN /\ failed' = IF runs >= 1 THEN (id :> txHash) @@ failed ELSE failed
          /\ NextInvoice([summary EXCEPT
                 !.updated = Append(@, id),
                 !.errors = Append(@, [invoiceId |-> id, error |-> "DB update failed"])])
    /\ UNCHANGED <<invoices, chainVars, alchemy, otherVars, listenerVars, runs,
                   prevOutcome, prevFailed>>

\* lines 176-180: the update throws and the error is recorded
MonitorUpdateThrows ==
    /\ pc = "update"
    /\ LET id == unpaid[i].id
       IN /\ failed' = IF runs >= 1 THEN (id :> txHash) @@ failed ELSE failed
          /\ NextInvoice([summary EXCEPT !.errors =
                 Append(@, [invoiceId |-> id, error |-> "DB update failed"])])
    /\ UNCHANGED <<invoices, chainVars, alchemy, otherVars, listenerVars, runs,
                   prevOutcome, prevFailed>>

(***************************************************************************)
(* The InvoicePaid listener of startContractMonitoring, cut at its awaits: *)
(* getTransaction, findUnique, update and, where the mail client is set,   *)
(* the two sends.  Handler h is one call of the listener; a handler that   *)
(* starts takes the lowest idle slot.                                      *)
(***************************************************************************)
ByNumber(number) == {k \in Ids : invoices[k].invoiceNumber = number}

Starts(h) ==
    /\ hpc[h] = "idle"
    /\ \A g \in Handlers : g < h => hpc[g] # "idle"

Ends(h) ==
    /\ hpc' = [hpc EXCEPT ![h] = "idle"]
    /\ hevent' = [hevent EXCEPT ![h] = NoEvent]
    /\ hinvoice' = [hinvoice EXCEPT ![h] = 0]

\* lines 30-35: getTransaction or parseTransaction throws outside the try
\* block; the rejection is unhandled and the event is lost
ListenerLookupThrows(h) ==
    /\ Starts(h)
    /\ \E e \in events : events' = events \ {e}
    /\ unhandled' = TRUE
    /\ Disturb
    /\ UNCHANGED <<invoices, feed, txCount, alchemy, editVars, serviceVars,
                   ledgerVars, refused, monitorVars, listenerVars>>

\* lines 42-45 and 69-71: findUnique throws inside the try block
ListenerFindThrows(h) ==
    /\ Starts(h)
    /\ \E e \in events : events' = events \ {e}
    /\ Disturb
    /\ UNCHANGED <<invoices, feed, txCount, alchemy, otherVars, monitorVars, listenerVars>>

\* lines 47-50: no invoice has the number of the event
ListenerNotFound(h) ==
    /\ Starts(h)
    /\ \E e \in events :
         /\ ByNumber(e.invoiceNumber) = {}
         /\ events' = events \ {e}
    /\ Disturb
    /\ UNCHANGED <<invoices, feed, txCount, alchemy, otherVars, monitorVars, listenerVars>>

\* lines 52-55: the invoice read is already PAID
ListenerAlreadyPaid(h) ==
    /\ Starts(h)
    /\ \E e \in events :
         /\ \E k \in ByNumber(e.invoiceNumber) : invoices[k].status = "PAID"
         /\ events' = events \ {e}
    /\ Disturb
    /\ UNCHANGED <<invoices, feed, txCount, alchemy, otherVars, monitorVars, listenerVars>>

\* lines 43-56: the invoice read is not PAID, the update is issued
ListenerFound(h) ==
    /\ Starts(h)
    /\ \E e \in events :
         \E k \in ByNumber(e.invoiceNumber) :
            /\ invoices[k].status # "PAID"
            /\ events' = events \ {e}
            /\ hevent' = [hevent EXCEPT ![h] = e]
            /\ hinvoice' = [hinvoice EXCEPT ![h] = k]
            /\ hpc' = [hpc EXCEPT ![h] = "update"]
    /\ Disturb
    /\ UNCHANGED <<invoices, feed, txCount, alchemy, otherVars, monitorVars, resend, sent>>

\* lines 57-65: the update is written, whatever the row holds by now; with a
\* mail client the handler goes on to the notifications (part_000, line 74)
ListenerUpdate(h) ==
    /\ hpc[h] = "update"
    /\ invoices' = [invoices EXCEPT ![hinvoice[h]].status = "PAID",
                                    ![hinvoice[h]].paymentTxHash = hevent[h].hash,
                                    ![hinvoice[h]].paidAt = hevent[h].timestamp,
                                    ![hinvoice[h]].paidViaContract = TRUE]
    /\ IF resend
       THEN /\ hpc' = [hpc EXCEPT ![h] = "emailClient"]
            /\ UNCHANGED <<hevent, hinvoice>>
       ELSE Ends(h)
    /\ Disturb
    /\ UNCHANGED <<chainVars, alchemy, otherVars, monitorVars, resend, sent>>

\* lines 69-71: the update throws and the error is logged
ListenerUpdateThrows(h) ==
    /\ hpc[h] = "update"
    /\ Ends(h)
    /\ Disturb
    /\ UNCHANGED <<invoices, chainVars, alchemy, otherVars, monitorVars, resend, sent>>

\* An email handed to the mail service: to the client or to the merchant,
\* about invoice k, quoting the transaction of the event.
Email(to, k, e) == [to |-> to, invoice |-> k, hash |-> e.hash]

\* part_000, lines 75-92: the confirmation is sent to the client
ListenerEmailClient(h) ==
    /\ hpc[h] = "emailClient"
    /\ sent' = sent \cup {Email("client", hinvoice[h], hevent[h])}
    /\ hpc' = [hpc EXCEPT ![h] = "emailMerchant"]
    /\ Disturb
    /\ UNCHANGED <<invoices, chainVars, alchemy, otherVars, monitorVars, hevent, hinvoice, resend>>

\* part_000, lines 93-95: the send to the client throws and is logged
ListenerEmailClientThrows(h) ==
    /\ hpc[h] = "emailClient"
    /\ hpc' = [hpc EXCEPT ![h] = "emailMerchant"]
    /\ Disturb
    /\ UNCHANGED <<invoices, chainVars, alchemy, otherVars, monitorVars, hevent, hinvoice,
                   resend, sent>>

\* part_000, lines 97-120: the merchant is looked up and notified
ListenerEmailMerchant(h) ==
    /\ hpc[h] = "emailMerchant"
    /\ sent' = sent \cup {Email("merchant", hinvoice[h], hevent[h])}
    /\ Ends(h)
    /\ Disturb
    /\ UNCHANGED <<invoices, chainVars, alchemy, otherVars, monitorVars, resend>>

\* part_000, lines 122-124: the lookup or the send throws and is logged
ListenerEmailMerchantThrows(h) ==
    /\ hpc[h] = "emailMerchant"
    /\ Ends(h)
    /\ Disturb
    /\ UNCHANGED <<invoices, chainVars, alchemy, otherVars, monitorVars, resend, sent>>

(***************************************************************************)
(* PUT /api/invoices/[id], cut at the awaits that touch the invoice: the   *)
(* findUnique whose row the checks of lines 163-189 inspect, and the       *)
(* update of line 215, with the await of the request body between them.    *)
(***************************************************************************)
PutAnswers(status) ==
    /\ ppc' = "idle"
    /\ pid' = 0
    /\ pdata' = NoData
    /\ presponse' = status

\* lines 170-175: the invoice belongs to another user
PutForbidden(user, k) ==
    /\ ppc = "idle"
    /\ k \in Ids
    /\ invoices[k].userId # user
    /\ PutAnswers(403)
    /\ Disturb
    /\ UNCHANGED <<invoices, chainVars, alchemy, serviceVars, ledgerVars, unhandled, refused,
                   monitorVars, listenerVars>>

\* lines 177-189: the invoice read is PAID, or not UNPAID
PutRejected(user, k) ==
    /\ ppc = "idle"
    /\ k \in Ids
    /\ invoices[k].userId = user
    /\ invoices[k].status # "UNPAID"
    /\ PutAnswers(400)
    /\ Disturb
    /\ UNCHANGED <<invoices, chainVars, alchemy, serviceVars, ledgerVars, unhandled, refused,
                   monitorVars, listenerVars>>

\* lines 191-208: the body is no JSON or fails the schema
PutInvalid(user, k) ==
    /\ ppc = "idle"
    /\ k \in Ids
    /\ invoices[k].userId = user
    /\ invoices[k].status = "UNPAID"
    /\ PutAnswers(400)
    /\ Disturb
    /\ UNCHANGED <<invoices, chainVars, alchemy, serviceVars, ledgerVars, unhandled, refused,
                   monitorVars, listenerVars>>

\* lines 152-211: the invoice read is UNPAID and the body is valid
PutRead(user, k, amount, currency) ==
    /\ ppc = "idle"
    /\ k \in Ids
    /\ invoices[k].userId = user
    /\ invoices[k].status = "UNPAID"
    /\ ppc' = "update"
    /\ pid' = k
    /\ pdata' = [amount |-> amount, currency |-> currency]
    /\ presponse' = 0
    /\ Disturb
    /\ UNCHANGED <<invoices, chainVars, alchemy, serviceVars, ledgerVars, unhandled, refused,
                   monitorVars, listenerVars>>

\* the update of lines 213-226 writing the payment address as well
PutUpdateWithAddress ==
    /\ ppc = "update"
    /\ invoices' = [invoices EXCEPT ![pid].amount = pdata.amount,
                                    ![pid].currency = pdata.currency,
                                    ![pid].paymentAddress = NULL]
    /\ PutAnswers(200)
    /\ Disturb
    /\ UNCHANGED <<chainVars, alchemy, serviceVars, ledgerVars, unhandled, refused,
                   monitorVars, listenerVars>>

\* lines 213-236: the update is written, whatever the row holds by now
PutUpdate ==
    /\ ppc = "update"
    /\ invoices' = [invoices EXCEPT ![pid].amount = pdata.amount,
                                    ![pid].currency = pdata.currency]
    /\ PutAnswers(200)
    /\ Disturb
    /\ UNCHANGED <<chainVars, alchemy, serviceVars, ledgerVars, unhandled, refused,
                   monitorVars, listenerVars>>

\* lines 227-231: the update throws
PutUpdateThrows ==
    /\ ppc = "update"
    /\ PutAnswers(500)
    /\ Disturb
    /\ UNCHANGED <<invoices, chainVars, alchemy, serviceVars, ledgerVars, unhandled, refused,
                   monitorVars, listenerVars>>

(***************************************************************************)
(* Starting and stopping the InvoicePaid listener.  A Contract object is   *)
(* named by the count of objects built so far; startContractMonitoring has *)
(* no await inside, so its body is one step.                               *)
(***************************************************************************)
\* contract-monitor.ts, lines 22-25: a new provider and a new Contract
\* replace the module's variables, and the listener is put on the new one
StartContractMonitoring ==
    /\ contract' = contract + 1
    /\ registered' = registered \cup {contract + 1}

\* part_003, lines 5-17: nothing where initialized is set; else the start,
\* and the flag is set after it
InitializeBackgroundServices ==
    /\ IF initialized
       THEN UNCHANGED serviceVars
       ELSE /\ contract < MaxStarts
            /\ StartContractMonitoring
            /\ initialized' = TRUE
            /\ UNCHANGED monitoringStarted
    /\ Disturb
    /\ UNCHANGED <<invoices, chainVars, alchemy, editVars, ledgerVars, unhandled,
                   refused, monitorVars, listenerVars>>

\* part_003, lines 18-20, with contract-monitor.ts, lines 76-79: the provider
\* cannot be built, the start rethrows, the error is logged, no flag is set
InitializeBackgroundServicesThrows ==
    /\ ~initialized
    /\ Disturb
    /\ UNCHANGED <<invoices, chainVars, alchemy, editVars, serviceVars, ledgerVars,
                   unhandled, refused, monitorVars, listenerVars>>

\* layout.tsx, lines 78-92: the route's own flag decides, not initialized
StartMonitoringRoute ==
    /\ IF monitoringStarted
       THEN UNCHANGED serviceVars
       ELSE /\ contract < MaxStarts
            /\ StartContractMonitoring
            /\ monitoringStarted' = TRUE
            /\ UNCHANGED initialized
    /\ Disturb
    /\ UNCHANGED <<invoices, chainVars, alchemy, editVars, ledgerVars, unhandled,
                   refused, monitorVars, listenerVars>>

\* layout.tsx, lines 93-96: the start throws and the route answers 500
StartMonitoringRouteThrows ==
    /\ ~monitoringStarted
    /\ Disturb
    /\ UNCHANGED <<invoices, chainVars, alchemy, editVars, serviceVars, ledgerVars,
                   unhandled, refused, monitorVars, listenerVars>>

\* contract-monitor.ts, lines 82-90: the listeners of the Contract the module
\* holds now are removed; the variables and both flags stay as they are
StopContractMonitoring ==
    /\ registered' = registered \ {contract}
    /\ UNCHANGED <<initialized, monitoringStarted, contract>>
    /\ Disturb
    /\ UNCHANGED <<invoices, chainVars, alchemy, editVars, ledgerVars, unhandled,
                   refused, monitorVars, listenerVars>>

(***************************************************************************)
(* The system.                                                             *)
(***************************************************************************)
UnknownNumber == <<"N", 0>>

\* The monitor with the invoices and the transfers it reads; one client.
Next ==
    \/ \E currency \in Currencies : CreateInvoice("u1", <<1, 0>>, currency)
    \/ \E amount \in InvoiceAmounts, currency \in Currencies, address \in Addresses :
         CreateInvoiceWithAddress("u1", amount, currency, address)
    \/ \E address \in Addresses, kind \in TransferKinds :
         Transfer(address, kind[1], kind[2])
    \/ MonitorNoAlchemy
    \/ MonitorFindThrows
    \/ MonitorStart
    \/ MonitorCheckThrows
    \/ MonitorCheck
    \/ MonitorUpdate
    \/ MonitorUpdateThrows

\* The handlers of InvoicePaid without a mail client.
Listener ==
    \/ \E h \in Handlers : ListenerLookupThrows(h)
    \/ \E h \in Handlers : ListenerFindThrows(h)
    \/ \E h \in Handlers : ListenerNotFound(h)
    \/ \E h \in Handlers : ListenerAlreadyPaid(h)
    \/ \E h \in Handlers : ListenerFound(h)
    \/ \E h \in Handlers : ListenerUpdate(h)
    \/ \E h \in Handlers : ListenerUpdateThrows(h)

\* The monitor next to the InvoicePaid listener, on fewer kinds of input and
\* with one payment made through the contract.
NextSystem ==
    \/ CreateInvoice("u1", <<1, 0>>, "USDC")
    \/ \E currency \in Currencies :
         CreateInvoiceWithAddress("u1", <<1, 0>>, currency, "0xabc")
    \/ Transfer("0xabc", "ETH", OneEther)
    \/ /\ txCount = NumTransfers     \* one payment through the contract
       /\ \E number \in Numbers \cup {UnknownNumber} :
            PayInvoice(number, "0xabc", OneEther)
    \/ MonitorNoAlchemy
    \/ MonitorFindThrows
    \/ MonitorStart
    \/ MonitorCheckThrows
    \/ MonitorCheck
    \/ MonitorUpdate
    \/ MonitorUpdateThrows
    \/ Listener

Spec == Init /\ [][Next]_vars

(***************************************************************************)
(* checkAddressForPayment on its own: a pass is about to check its one     *)
(* row, an ETH invoice, against a feed of one or two transfers whose       *)
(* amounts lie at and around the invoice amount.                           *)
(***************************************************************************)
\* 0.0001 ether and 0.00011 ether, in gwei
ToleranceGwei == Pow10(5)

BeyondToleranceGwei == 11 * Pow10(4)

Plus(x, g, w) == Wei(x.gwei + g, x.wei + w)

RawValuesAround(x) ==
    {x, Plus(x, ToleranceGwei, 0), Plus(x, ToleranceGwei, 1),
     Plus(x, BeyondToleranceGwei, 0), Plus(x, -ToleranceGwei, 0), NullRaw}

AssetsReported == {"ETH", "eth", "USDC", NULL}

Numbered(kinds) ==
    [k \in 1..Len(kinds) |->
        [hash |-> k, asset |-> kinds[k][1], value |-> kinds[k][2]]]

InitMatch ==
    /\ \E amount \in InvoiceAmounts :
         /\ invoices = <<NewInvoice("u1", <<"N", 1>>, amount, "ETH", "0xabc")>>
         /\ \E n \in 1..MaxScan :
              \E kinds \in [1..n -> AssetsReported \X RawValuesAround(amountToWei(amount))] :
                 /\ feed = [a \in Addresses |->
                              IF a = "0xabc" THEN Numbered(kinds) ELSE <<>>]
                 /\ txCount = n
    /\ alchemy = TRUE
    /\ pc = "check"
    /\ unpaid = <<Row(1)>>
    /\ i = 1
    /\ txHash = NullHash
    /\ summary = [EmptySummary EXCEPT !.checked = 1]
    /\ response = NoResponse
    /\ events = {}
    /\ hpc = [h \in Handlers |-> "idle"]
    /\ hevent = [h \in Handlers |-> NoEvent]
    /\ hinvoice = [h \in Handlers |-> 0]
    /\ resend = FALSE
    /\ sent = {}
    /\ unhandled = FALSE
    /\ refused = FALSE
    /\ NoEdit
    /\ ServicesInitialized
    /\ NewLedger
    /\ runs = 1
    /\ prevOutcome = "none"
    /\ failed = <<>>
    /\ prevFailed = <<>>

NextMatch ==
    \/ MonitorCheckThrows
    \/ MonitorCheck
    \/ MonitorUpdate
    \/ MonitorUpdateThrows

SpecMatch == InitMatch /\ [][NextMatch]_vars

SpecSystem == Init /\ [][NextSystem]_vars

(***************************************************************************)
(* Edits of an invoice next to the monitor and the InvoicePaid listener.   *)
(***************************************************************************)
InitEdit == Init /\ alchemy = TRUE

NextEdit ==
    \/ CreateInvoiceWithAddress("u1", <<1, 0>>, "ETH", "0xabc")
    \/ Transfer("0xabc", "ETH", OneEther)
    \/ /\ txCount = NumTransfers     \* one payment through the contract
       /\ \E number \in Numbers : PayInvoice(number, "0xabc", OneEther)
    \/ MonitorStart
    \/ MonitorCheck
    \/ MonitorUpdate
    \/ \E h \in Handlers : ListenerAlreadyPaid(h)
    \/ \E h \in Handlers : ListenerFound(h)
    \/ \E h \in Handlers : ListenerUpdate(h)
    \/ \E k \in Ids : PutRejected("u1", k)
    \/ \E k \in Ids : PutInvalid("u1", k)
    \/ \E k \in Ids : PutRead("u1", k, <<5, 1>>, "USDC")
    \/ PutUpdate
    \/ PutUpdateThrows

SpecEdit == InitEdit /\ [][NextEdit]_vars

(***************************************************************************)
(* The server from before its layout module is loaded: the listener is     *)
(* started and stopped while payments come in through the contract.        *)
(***************************************************************************)
NothingStarted ==
    /\ initialized = FALSE
    /\ monitoringStarted = FALSE
    /\ contract = 0
    /\ registered = {}

InitStart ==
    /\ invoices = <<>>
    /\ feed = [a \in Addresses |-> <<>>]
    /\ txCount = 0
    /\ alchemy = TRUE
    /\ pc = "idle"
    /\ unpaid = <<>>
    /\ i = 0
    /\ txHash = NullHash
    /\ summary = EmptySummary
    /\ response = NoResponse
    /\ events = {}
    /\ hpc = [h \in Handlers |-> "idle"]
    /\ hevent = [h \in Handlers |-> NoEvent]
    /\ hinvoice = [h \in Handlers |-> 0]
    /\ resend = FALSE
    /\ sent = {}
    /\ unhandled = FALSE
    /\ refused = FALSE
    /\ NoEdit
    /\ NothingStarted
    /\ NewLedger
    /\ runs = 0
    /\ prevOutcome = "none"
    /\ failed = <<>>
    /\ prevFailed = <<>>

NextStart ==
    \/ InitializeBackgroundServices
    \/ InitializeBackgroundServicesThrows
    \/ StartMonitoringRoute
    \/ StartMonitoringRouteThrows
    \/ StopContractMonitoring
    \/ CreateInvoiceWithAddress("u1", <<1, 0>>, "ETH", "0xabc")
    \/ /\ txCount = 0               \* one payment through the contract
       /\ \E number \in Numbers : PayInvoice(number, "0xabc", OneEther)
    \/ \E h \in Handlers : ListenerAlreadyPaid(h)
    \/ \E h \in Handlers : ListenerFound(h)
    \/ \E h \in Handlers : ListenerUpdate(h)

SpecStart == InitStart /\ [][NextStart]_vars

(***************************************************************************)
(* The routes that create and edit invoices, for two clients.              *)
(***************************************************************************)
NextRoutes ==
    \/ \E user \in Users, amount \in InvoiceAmounts, currency \in Currencies :
         CreateInvoice(user, amount, currency)
    \/ \E user \in Users, address \in Addresses :
         CreateInvoiceWithAddress(user, <<1, 0>>, "ETH", address)
    \/ \E user \in Users : CreateInvoiceRefused(user)
    \/ \E user \in Users, k \in Ids : PutForbidden(user, k)
    \/ \E user \in Users, k \in Ids : PutInvalid(user, k)
    \/ \E user \in Users, k \in Ids, amount \in InvoiceAmounts :
         PutRead(user, k, amount, "ETH")
    \/ PutUpdate
    \/ PutUpdateThrows

SpecRoutes == Init /\ [][NextRoutes]_vars

(***************************************************************************)
(* The InvoicePaid listener with its mail client set, on the payments the  *)
(* contract lets anybody make: payInvoice takes any invoice number, any    *)
(* recipient and any positive value, any number of times.                  *)
(***************************************************************************)
\* 1 ether, and 1 gwei: less than every invoice amount of the model
EventAmounts == {OneEther, Wei(1, 0)}

InitNotify ==
    /\ invoices = <<>>
    /\ feed = [a \in Addresses |-> <<>>]
    /\ txCount = 0
    /\ alchemy = TRUE
    /\ pc = "idle"
    /\ unpaid = <<>>
    /\ i = 0
    /\ txHash = NullHash
    /\ summary = EmptySummary
    /\ response = NoResponse
    /\ events = {}
    /\ hpc = [h \in Handlers |-> "idle"]
    /\ hevent = [h \in Handlers |-> NoEvent]
    /\ hinvoice = [h \in Handlers |-> 0]
    /\ resend = TRUE
    /\ sent = {}
    /\ unhandled = FALSE
    /\ refused = FALSE
    /\ NoEdit
    /\ ServicesInitialized
    /\ NewLedger
    /\ runs = 0
    /\ prevOutcome = "none"
    /\ failed = <<>>
    /\ prevFailed = <<>>

NextNotify ==
    \/ CreateInvoiceWithAddress("u1", <<1, 0>>, "ETH", "0xabc")
    \/ \E number \in Numbers \cup {UnknownNumber}, recipient \in Addresses,
          value \in EventAmounts : PayInvoice(number, recipient, value)
    \/ Listener
    \/ \E h \in Handlers : ListenerEmailClient(h)
    \/ \E h \in Handlers : ListenerEmailClientThrows(h)
    \/ \E h \in Handlers : ListenerEmailMerchant(h)
    \/ \E h \in Handlers : ListenerEmailMerchantThrows(h)

SpecNotify == InitNotify /\ [][NextNotify]_vars

(***************************************************************************)
(* DeverseGatePayments with its callers: calls of payInvoice that succeed, *)
(* calls that revert and plain transfers, next to the InvoicePaid listener.*)
(***************************************************************************)
Recipients == Addresses \cup {ZeroAddress} \cup Rejecting

NextContract ==
    \/ CreateInvoiceWithAddress("u1", <<1, 0>>, "ETH", "0xabc")
    \/ \E number \in Numbers \cup {UnknownNumber}, recipient \in Addresses,
          value \in EventAmounts :
         PayInvoice(number, recipient, value)
    \/ \E number \in Numbers \cup {UnknownNumber}, recipient \in Recipients,
          value \in EventAmounts \cup {Wei(0, 0)} :
         PayInvoiceReverts(number, recipient, value)
    \/ PlainTransferReverts
    \/ Listener

SpecContract == Init /\ [][NextContract]_vars

(***************************************************************************)
(* checkAddressForPayment at the cap of the lookup: the address of the one *)
(* pending invoice has received about MAX_TRANSFERS_PER_ADDRESS transfers, *)
(* at most one of them of the invoice amount.  The index lists from block  *)
(* 0x0 upwards, so the records past the cap are the newest.                *)
(***************************************************************************)
\* n transfers of 1 gwei, the p-th (if any) of 1 ether
FeedAtCap(n, p) ==
    [k \in 1..n |-> [hash |-> k, asset |-> "ETH",
                     value |-> IF k = p THEN OneEther ELSE Wei(1, 0)]]

InitCap ==
    /\ invoices = <<NewInvoice("u1", <<"N", 1>>, <<1, 0>>, "ETH", "0xabc")>>
    /\ \E n \in (MAX_TRANSFERS_PER_ADDRESS - 1)..(MAX_TRANSFERS_PER_ADDRESS + MaxBeyondCap) :
         \E p \in 0..n :
            /\ feed = [a \in Addresses |-> IF a = "0xabc" THEN FeedAtCap(n, p) ELSE <<>>]
            /\ txCount = n
    /\ alchemy = TRUE
    /\ pc = "check"
    /\ unpaid = <<Row(1)>>
    /\ i = 1
    /\ txHash = NullHash
    /\ summary = [EmptySummary EXCEPT !.checked = 1]
    /\ response = NoResponse
    /\ events = {}
    /\ hpc = [h \in Handlers |-> "idle"]
    /\ hevent = [h \in Handlers |-> NoEvent]
    /\ hinvoice = [h \in Handlers |-> 0]
    /\ resend = FALSE
    /\ sent = {}
    /\ unhandled = FALSE
    /\ refused = FALSE
    /\ NoEdit
    /\ ServicesInitialized
    /\ NewLedger
    /\ runs = 1
    /\ prevOutcome = "none"
    /\ failed = <<>>
    /\ prevFailed = <<>>

SpecCap == InitCap /\ [][NextMatch]_vars

(***************************************************************************)
(* The pass under fair scheduling: a handler that can take a step takes    *)
(* it.  A lookup that never settles leaves the pass with no step to take.  *)
(***************************************************************************)
PassStep ==
    \/ MonitorCheckThrows
    \/ MonitorCheck
    \/ MonitorUpdate
    \/ MonitorUpdateThrows

NextLive ==
    \/ CreateInvoiceWithAddress("u1", <<1, 0>>, "ETH", "0xabc")
    \/ Transfer("0xabc", "ETH", OneEther)
    \/ MonitorNoAlchemy
    \/ MonitorFindThrows
    \/ MonitorStart
    \/ MonitorCheckHangs
    \/ PassStep

SpecLive == Init /\ [][NextLive]_vars /\ WF_vars(PassStep)

(***************************************************************************)
(* Vocabulary of the properties.                                           *)
(***************************************************************************)
ErrorIds(errors) == {errors[k].invoiceId : k \in 1..Len(errors)}

ErrorsOf(errors, id, text) ==
    {k \in 1..Len(errors) : errors[k].invoiceId = id /\ errors[k].error = text}

UpdatedIds == Range(response.updatedIds)

\* A pass has returned its summary and nothing but the pass has run since
\* it started.
PassReturned == pc = "idle" /\ runs >= 1 /\ response.status = 200 /\ alchemy

\* Invoice k was UNPAID with an address when that pass started: only the
\* pass wrote since, and it writes PAID on the invoices it lists as updated.
WasPending(k) ==
    /\ invoices[k].paymentAddress # NULL
    /\ invoices[k].status = "UNPAID" \/ k \in UpdatedIds

Untouched(k) ==
    /\ invoices[k].status = "UNPAID"
    /\ invoices[k].paymentTxHash = NullHash
    /\ invoices[k].paidAt = NullDate

AllTransfers == UNION {Range(feed[a]) : a \in Addresses}

\* The transfers to the address of invoice k that the monitor takes as its
\* payment: asset ETH and the invoice amount in wei.
EthMatches(k) ==
    {t \in Range(feed[invoices[k].paymentAddress]) :
        toUpperCase(t.asset) = "ETH" /\ t.value = amountToWei(invoices[k].amount)}

\* The transfers to the address of invoice k in the currency of the invoice
\* and of exactly its amount (18 decimals for ETH, 6 for USDC).
RawAmount(amount, currency) ==
    IF currency = "USDC" THEN Wei(0, amount[1] * Pow10(6 - amount[2]))
    ELSE parseEther(amount)

CurrencyMatches(k) ==
    {t \in Range(feed[invoices[k].paymentAddress]) :
        /\ toUpperCase(t.asset) = invoices[k].currency
        /\ t.value = RawAmount(invoices[k].amount, invoices[k].currency)}

(***************************************************************************)
(* C1.  No double spend: no two distinct invoices hold the same non-null   *)
(* paymentTxHash, in any state that passes and InvoicePaid handlings       *)
(* reach.                                                                  *)
(***************************************************************************)
NoDoubleSpend ==
    \A j \in Ids : \A k \in Ids :
        (j # k /\ invoices[j].paymentTxHash # NullHash)
            => invoices[j].paymentTxHash # invoices[k].paymentTxHash

(***************************************************************************)
(* C2.  One pass, two pending ETH invoices with the same paymentAddress    *)
(* and amount, exactly one matching transfer in the feed of that address,  *)
(* no failure: after the pass exactly one of the two is PAID and the other *)
(* is still UNPAID.                                                        *)
(***************************************************************************)
OneTransferPaysOneInvoice ==
    PassReturned =>
        \A j \in Ids : \A k \in Ids :
            ( /\ j # k
              /\ WasPending(j) /\ WasPending(k)
              /\ invoices[j].currency = "ETH" /\ invoices[k].currency = "ETH"
              /\ invoices[j].paymentAddress = invoices[k].paymentAddress
              /\ invoices[j].amount = invoices[k].amount
              /\ Cardinality(EthMatches(j)) = 1
              /\ response.errors = <<>> )
            => Cardinality({x \in {j, k} : invoices[x].status = "PAID"}) = 1

(***************************************************************************)
(* C3.  Across passes: the hash a pass detects for an invoice is never a   *)
(* hash that another invoice already held as paymentTxHash when the pass   *)
(* started.  (In a pass that nothing disturbed, the invoices outside the   *)
(* rows of the pass hold what they held when it started.)                  *)
(***************************************************************************)
DetectedHashIsUnused ==
    (pc = "update" /\ runs >= 1) =>
        \A k \in Ids \ {unpaid[n].id : n \in 1..Len(unpaid)} :
            invoices[k].paymentTxHash # txHash

(***************************************************************************)
(* C4.  Idempotence as claimed: when a pass follows a pass with the same   *)
(* feed and nothing in between, and both return a summary, the second     *)
(* reports updated = 0.                                                    *)
(***************************************************************************)
RepeatedPassUpdatesNothing ==
    ( /\ pc = "idle" /\ runs = 2
      /\ prevOutcome \in {"errors", "clean"}
      /\ response.status = 200 )
    => response.updated = 0

(***************************************************************************)
(* C4, amended.  When a pass follows a pass that returned a summary with   *)
(* no errors, with the same feed and nothing in between, no step of it     *)
(* changes a field of an invoice and it reports updated = 0.               *)
(***************************************************************************)
CleanPassRepeatedIsNoOp ==
    [][(runs' = 2 /\ prevOutcome' = "clean")
         => /\ invoices' = invoices
            /\ summary'.updated = <<>>
            /\ (response'.status = 200 => response'.updated = 0)]_vars

\* A second pass has returned after a clean one; an invoice was paid by a
\* transfer that is still in the feed, another invoice was checked again.
CleanPassRepeated ==
    /\ pc = "idle" /\ runs = 2 /\ prevOutcome = "clean" /\ alchemy
    /\ response.status = 200
    /\ response.checked >= 1 /\ response.errors = <<>>
    /\ \E k \in Ids : invoices[k].status = "PAID" /\ EthMatches(k) # {}

(***************************************************************************)
(* C5.  An UNPAID invoice with an address whose feed holds a transfer in   *)
(* the invoice's currency of exactly the invoice's amount is, after one    *)
(* pass without failure, PAID with the hash of such a transfer.            *)
(***************************************************************************)
MatchingTransferPaysInvoice ==
    PassReturned =>
        \A k \in Ids :
            ( /\ WasPending(k)
              /\ k \notin ErrorIds(response.errors)
              /\ CurrencyMatches(k) # {} )
            => /\ invoices[k].status = "PAID"
               /\ invoices[k].paymentTxHash \in {t.hash : t \in CurrencyMatches(k)}

(***************************************************************************)
(* C6.  Tolerance boundary for ETH: for an ETH invoice of amount X, a      *)
(* transfer of X + 0.0001 ether, and any amount within 0.0001 ether of X,  *)
(* is accepted as its payment and a transfer of X + 0.00011 ether is       *)
(* rejected, the comparison being on exact integers.                       *)
(***************************************************************************)
\* |a - b| <= tolerance, in wei, without leaving the integers of the checker
WithinTolerance(a, b, gwei) ==
    LET d == a.gwei - b.gwei
        e == a.wei - b.wei
    IN /\ d < gwei \/ (d = gwei /\ e <= 0)
       /\ d > -gwei \/ (d = -gwei /\ e >= 0)

\* the check of the row has returned a hash
Detected ==
    \/ pc = "update" /\ summary.detected = 1
    \/ pc = "idle" /\ response.status = 200 /\ response.detected = 1

ToleranceBoundary ==
    LET transfers == feed["0xabc"]
        expected == amountToWei(invoices[1].amount)
    IN ( /\ pc # "check"
         /\ summary.errors = <<>> /\ response.errors = <<>>
         /\ Len(transfers) = 1
         /\ transfers[1].asset = "ETH"
         /\ transfers[1].value # NullRaw )
       => /\ WithinTolerance(transfers[1].value, expected, ToleranceGwei) => Detected
          /\ transfers[1].value = Plus(expected, BeyondToleranceGwei, 0) => ~Detected

AssetIsInvoiceCurrency ==
    \A k \in Ids :
        (invoices[k].paymentTxHash # NullHash /\ ~invoices[k].paidViaContract)
            => \A t \in AllTransfers :
                  t.hash = invoices[k].paymentTxHash
                      => toUpperCase(t.asset) = invoices[k].currency

IsPrefix(s, t) == Len(s) <= Len(t) /\ SubSeq(t, 1, Len(s)) = s

PaidIsNotRewritten ==
    [][\A k \in Ids :
          invoices[k].status = "PAID"
              => /\ invoices'[k].status = "PAID"
                 /\ invoices'[k].paymentTxHash = invoices[k].paymentTxHash
                 /\ invoices'[k].paidAt = invoices[k].paidAt]_vars

(***************************************************************************)
(* C13.  Every change a pass or an InvoicePaid handler makes to an invoice *)
(* takes it from UNPAID to PAID: the invoice is UNPAID at the moment of    *)
(* the write.                                                              *)
(***************************************************************************)
WritesOnlyOnUnpaid ==
    [][\A k \in Ids :
          invoices'[k] # invoices[k]
              => /\ invoices[k].status = "UNPAID"
                 /\ invoices'[k].status = "PAID"]_vars

(***************************************************************************)
(* C14.  paymentTxHash is set exactly once: a non-null paymentTxHash is    *)
(* the same after every step, also after the handling of a second          *)
(* InvoicePaid event for the same invoice number.                          *)
(***************************************************************************)
HashIsSetOnce ==
    [][\A k \in Ids :
          invoices[k].paymentTxHash # NullHash
              => invoices'[k].paymentTxHash = invoices[k].paymentTxHash]_vars

(***************************************************************************)
(* C15.  An invoice becomes PAID through the contract-event path only by   *)
(* an InvoicePaid event whose amount is the invoice amount, within the     *)
(* tolerance, and whose recipient is the receiving address of the invoice: *)
(* the handler that writes the hash of its event on the invoice handles    *)
(* such an event.                                                          *)
(***************************************************************************)
EventPaysItsInvoice ==
    [][\A k \in Ids :
          (/\ invoices'[k].paidViaContract
           /\ invoices'[k].paymentTxHash # invoices[k].paymentTxHash)
              => \E h \in Handlers :
                    /\ hevent[h].hash = invoices'[k].paymentTxHash
                    /\ WithinTolerance(hevent[h].amount,
                                       amountToWei(invoices[k].amount), ToleranceGwei)
                    /\ hevent[h].recipient = invoices[k].paymentAddress]_vars

(***************************************************************************)
(* C16.  Truncation is signalled: when the payment of a pending invoice    *)
(* lies beyond the cap of the lookup and no payment lies within it, the    *)
(* pass does not silently report no payment: its summary names the invoice *)
(* among the errors as possibly missed.                                    *)
(***************************************************************************)
\* The feed of invoice k holds its payment past the cap and none within.
MatchBeyondCap(k) ==
    LET all == feed[invoices[k].paymentAddress]
        expectedWei == amountToWei(invoices[k].amount)
    IN /\ Len(all) > MAX_TRANSFERS_PER_ADDRESS
       /\ ScanTransfers(all, MAX_TRANSFERS_PER_ADDRESS + 1, expectedWei) # NullHash
       /\ checkAddressForPayment(all, invoices[k].amount) = NullHash

TruncationIsSignalled ==
    PassReturned =>
        \A k \in Ids :
            (WasPending(k) /\ MatchBeyondCap(k)) => k \in ErrorIds(response.errors)

(***************************************************************************)
(* C17.  Summary invariant: in the running pass checked is the number of   *)
(* rows loaded and updated <= detected <= checked; the answer of the       *)
(* trigger carries checked, detected, the count of updated and the errors, *)
(* with updated <= detected <= checked, detected = updated + the number of *)
(* store-write errors, every invoice id at most once across updated and    *)
(* errors, and checked the number of invoices that were UNPAID with an     *)
(* address when the pass loaded them.                                      *)
(***************************************************************************)
WriteErrors(errors) == {n \in 1..Len(errors) : errors[n].error = "DB update failed"}

SummaryIsConsistent ==
    /\ pc # "idle"
          => /\ summary.checked = Len(unpaid)
             /\ Len(summary.updated) <= summary.detected
             /\ summary.detected <= summary.checked
    /\ response.status = 200
          => /\ response.updated = Len(response.updatedIds)
             /\ response.updated <= response.detected
             /\ response.detected <= response.checked
             /\ response.detected
                  = response.updated + Cardinality(WriteErrors(response.errors))
             /\ Cardinality(UpdatedIds \cup ErrorIds(response.errors))
                  = Len(response.updatedIds) + Len(response.errors)
    /\ PassReturned
          => response.checked = Cardinality({k \in Ids : WasPending(k)})

\* A pass returned that checked two invoices and detected a payment for
\* both, updating one and failing to write the other.
MixedSummaryReturned ==
    /\ PassReturned
    /\ response.checked = 2 /\ response.detected = 2 /\ response.updated = 1
    /\ Cardinality(WriteErrors(response.errors)) = 1

(***************************************************************************)
(* C18.  An invoice with a null paymentAddress is skipped by the monitor:  *)
(* it is never among the rows of a pass, so no lookup is made for it, it   *)
(* is not counted in checked, and it stays as it was created.              *)
(***************************************************************************)
NullAddressIsSkipped ==
    /\ \A n \in 1..Len(unpaid) : /\ unpaid[n].paymentAddress # NULL
                                 /\ invoices[unpaid[n].id].paymentAddress # NULL
    /\ \A k \in Ids : invoices[k].paymentAddress = NULL => Untouched(k)
    /\ (pc # "idle" \/ PassReturned)
          => LET checked == IF pc # "idle" THEN summary.checked ELSE response.checked
             IN checked <= Cardinality({k \in Ids : invoices[k].paymentAddress # NULL})

\* A pass returned that paid an invoice while an invoice without address
\* was UNPAID: only the first was checked.
NullAddressLeftAlone ==
    /\ PassReturned
    /\ response.checked = 1 /\ response.updated = 1
    /\ \E k \in Ids : invoices[k].paymentAddress = NULL /\ Untouched(k)
    /\ AllTransfers # {}

(***************************************************************************)
(* C19.  A pass always terminates: a pass that is checking an invoice      *)
(* eventually returns, also when the lookup for that invoice never         *)
(* responds (the lookup then times out and the pass goes on).              *)
(***************************************************************************)
PassTerminates == (pc = "check") ~> (pc = "idle")

(***************************************************************************)
(* C20.  No duplicate notification: for each invoice at most one payment   *)
(* confirmation is sent to the client and at most one notification to the  *)
(* merchant, over every interleaving of the handlings of InvoicePaid.      *)
(***************************************************************************)
NoDuplicateNotification ==
    \A r \in sent : \A q \in sent :
        (r.to = q.to /\ r.invoice = q.invoice) => r = q

(***************************************************************************)
(* C21.  Status and payment fields stay coherent: an invoice that is PAID  *)
(* has a paymentTxHash and a paidAt, and an invoice with a paymentTxHash   *)
(* is PAID, in every state that passes and InvoicePaid handlings reach.    *)
(***************************************************************************)
PaymentFieldsCoherent ==
    \A k \in Ids :
        /\ invoices[k].status = "PAID"
              => /\ invoices[k].paymentTxHash # NullHash
                 /\ invoices[k].paidAt # NullDate
        /\ invoices[k].paymentTxHash # NullHash => invoices[k].status = "PAID"

\* One invoice is PAID by a pass and another by an InvoicePaid handler.
PaidByPassAndByHandler ==
    \E j \in Ids : \E k \in Ids :
        /\ invoices[j].status = "PAID" /\ ~invoices[j].paidViaContract
        /\ invoices[j].paymentTxHash \in FeedHashes
        /\ invoices[k].status = "PAID" /\ invoices[k].paidViaContract

(***************************************************************************)
(* C22.  Within one pass the invoices are processed oldest-created-first:  *)
(* the rows of a pass are in the order of creation, and of two pending     *)
(* invoices that the same single transfer could pay, the one created       *)
(* earlier is credited and the other is left as it was.                    *)
(***************************************************************************)
OldestFirst ==
    /\ \A a \in 1..Len(unpaid) : \A b \in 1..Len(unpaid) :
          a < b => unpaid[a].id < unpaid[b].id
    /\ (PassReturned /\ response.errors = <<>>) =>
          \A j \in Ids : \A k \in Ids :
              (/\ j < k
               /\ WasPending(j) /\ WasPending(k)
               /\ invoices[j].paymentAddress = invoices[k].paymentAddress
               /\ invoices[j].amount = invoices[k].amount
               /\ Cardinality(EthMatches(j)) = 1)
                  => invoices[j].status = "PAID" /\ Untouched(k)

(***************************************************************************)
(* C23.  Tie-break: the hash detected for an invoice, and recorded as its  *)
(* paymentTxHash, is that of the first transfer, in the order returned,    *)
(* that is of asset ETH and of the invoice amount; the transfers after it  *)
(* play no part in the result.                                             *)
(***************************************************************************)
IsFirstMatch(k, hash) ==
    LET all == feed[invoices[k].paymentAddress]
    IN \E p \in 1..Len(all) :
          /\ all[p].hash = hash
          /\ all[p] \in EthMatches(k)
          /\ \A q \in 1..(p - 1) : all[q] \notin EthMatches(k)
          /\ checkAddressForPayment(SubSeq(all, 1, p), invoices[k].amount) = hash

FirstMatchIsRecorded ==
    /\ pc = "update" => IsFirstMatch(unpaid[i].id, txHash)
    /\ \A k \in Ids :
          invoices[k].status = "PAID" => IsFirstMatch(k, invoices[k].paymentTxHash)

\* The invoice is PAID with the hash of the first of two matching transfers.
FirstOfTwoRecorded ==
    /\ invoices[1].status = "PAID"
    /\ Cardinality(EthMatches(1)) = 2
    /\ invoices[1].paymentTxHash = feed["0xabc"][1].hash

(***************************************************************************)
(* C24.  Paid invoices cannot be edited: no step changes the amount or the *)
(* currency of an invoice that is not UNPAID when the step is taken, also  *)
(* where a pass or an InvoicePaid handler marked it PAID between the read  *)
(* of the PUT and its update.                                              *)
(***************************************************************************)
PaidIsNotEdited ==
    [][\A k \in Ids :
          invoices[k].status # "UNPAID" =>
              /\ invoices'[k].amount = invoices[k].amount
              /\ invoices'[k].currency = invoices[k].currency]_vars

(***************************************************************************)
(* C25.  Identity fields are immutable: no step removes or reorders an     *)
(* invoice or changes an invoiceNumber or a paymentAddress; a step that    *)
(* writes a payment field (status, paymentTxHash, paidAt, paidViaContract) *)
(* writes the invoice matched by the pass or found by a handler, leaves    *)
(* its amount and currency as they were, and changes no other invoice.     *)
(***************************************************************************)
PaymentFields(row) ==
    <<row.status, row.paymentTxHash, row.paidAt, row.paidViaContract>>

IdentityIsImmutable ==
    [][/\ Len(invoices') >= Len(invoices)
       /\ \A k \in Ids :
             /\ invoices'[k].invoiceNumber = invoices[k].invoiceNumber
             /\ invoices'[k].paymentAddress = invoices[k].paymentAddress
       /\ \A k \in Ids :
             PaymentFields(invoices'[k]) # PaymentFields(invoices[k]) =>
                 /\ invoices'[k].amount = invoices[k].amount
                 /\ invoices'[k].currency = invoices[k].currency
                 /\ \A j \in Ids \ {k} : invoices'[j] = invoices[j]
                 /\ \/ pc = "update" /\ unpaid[i].id = k
                    \/ \E h \in Handlers : hpc[h] = "update" /\ hinvoice[h] = k]_vars

\* One invoice was edited and then paid, next to another still unpaid.
EditedThenPaid ==
    \E k \in Ids : \E j \in Ids :
        /\ invoices[k].status = "PAID"
        /\ invoices[k].amount = <<5, 1>>
        /\ invoices[k].paymentAddress = "0xabc"
        /\ invoices[j].status = "UNPAID"

(***************************************************************************)
(* C26.  invoiceNumber is a unique business key: no two invoices hold the  *)
(* same number, and the number POST /api/invoices computes for a user is   *)
(* held by no invoice of any user, so that no valid create request is      *)
(* answered with an error.                                                 *)
(***************************************************************************)
NumberIsFree ==
    /\ \A j \in Ids : \A k \in Ids :
          j # k => invoices[j].invoiceNumber # invoices[k].invoiceNumber
    /\ ~refused

(***************************************************************************)
(* C27.  No failure while handling one InvoicePaid event escapes the       *)
(* handler: a failing transaction lookup or an undecodable input, like a   *)
(* failing store call, is caught inside the handler, so no rejection is    *)
(* ever left unhandled.                                                    *)
(***************************************************************************)
NothingEscapes == ~unhandled

(***************************************************************************)
(* C28.  At most one InvoicePaid listener is ever active: whatever calls   *)
(* of initializeBackgroundServices and of the start-monitoring route have  *)
(* been made, one Contract at most carries a listener, each on-chain event *)
(* is handed to one handler, and a stop leaves no listener registered.     *)
(***************************************************************************)
Deliveries(hash) ==
    {e \in events : e.hash = hash}
        \cup {hevent[h] : h \in {g \in Handlers : hpc[g] # "idle" /\ hevent[g].hash = hash}}

OneListener ==
    /\ Cardinality(registered) <= 1
    /\ \A hash \in 1..txCount : Cardinality(Deliveries(hash)) <= 1

(***************************************************************************)
(* C29.  The payment contract never retains funds: its balance is 0 in     *)
(* every state; a step moves ether only as a successful payInvoice call,   *)
(* and such a call emits one InvoicePaid event, of a non-zero amount, and  *)
(* credits exactly that amount to the event's recipient.                   *)
(***************************************************************************)
PayInvoiceSucceeds == txCount' = txCount + 1 /\ feed' = feed

ContractKeepsNothing ==
    /\ [](balance[ContractAccount] = NoEther)
    /\ [][/\ (balance' # balance \/ events' \ events # {}) => PayInvoiceSucceeds
          /\ PayInvoiceSucceeds =>
                \E e \in events' :
                    /\ events' \ events = {e}
                    /\ e.hash = txCount'
                    /\ e.amount # Wei(0, 0)
                    /\ balance' = [balance EXCEPT ![e.recipient] = Credit(@, e.amount)]]_vars

\* Both recipients have been paid through the contract.
BothRecipientsPaid ==
    /\ balance["0xabc"] # NoEther
    /\ balance["0xdef"] # NoEther
    /\ txCount = MaxEvents

(***************************************************************************)
(* C30.  Failed on-chain payments have no effect: a call that reverts      *)
(* changes no balance, emits no event and changes no invoice; no event     *)
(* carries a zero amount, the zero address or a rejecting recipient, and   *)
(* an invoice paid through the contract has a successful call behind it.   *)
(***************************************************************************)
EventsSeen == events \cup {hevent[h] : h \in {g \in Handlers : hpc[g] # "idle"}}

RevertHasNoEffect ==
    /\ [][reverted' # reverted => UNCHANGED <<balance, events, txCount, invoices>>]_vars
    /\ [](\A e \in EventsSeen :
             /\ e.amount # Wei(0, 0)
             /\ e.recipient \in Addresses)
    /\ [](\A k \in Ids :
             invoices[k].paidViaContract =>
                 /\ invoices[k].paymentTxHash \in 1..txCount
                 /\ \E a \in Addresses : balance[a] # NoEther)

\* Every call so far has reverted and the invoices are unpaid.
OnlyRevertsSoFar ==
    /\ reverted = MaxReverts
    /\ txCount = 0
    /\ Len(invoices) = MaxInvoices
    /\ \A k \in Ids : invoices[k].status = "UNPAID"

====
